---- MODULE Spec2Model ----
(***************************************************************************)
(* Hexapod inverse-kinematics simulator: the App state (dimensions, pose,  *)
(* data-panel flag, memoized configuration) and the solver solveHexapodIK. *)
(*                                                                         *)
(* Numbers.  A JavaScript number is modelled as a fixed-point integer.     *)
(* Lengths, coordinates and degrees carry Scale (1 unit = Scale);          *)
(* radians and the values of sin/cos (and the law-of-cosines ratios)       *)
(* carry Unit = Scale * Scale.  NaN and +-Infinity are three reserved      *)
(* integers outside the range any finite value of the model takes.         *)
(***************************************************************************)
EXTENDS Integers, Sequences, FiniteSets, TLC

Scale == 10000
Unit == Scale * Scale

NaN == 2147483647
PosInf == 2147483646
NegInf == -2147483646

IsNaN(a) == a = NaN
IsFinite(a) == a # NaN /\ a # PosInf /\ a # NegInf

Abs(a) == IF a < 0 THEN -a ELSE a

(* a literal n of the source, as a length-scale number *)
Num(n) == n * Scale

(***************************************************************************)
(* Arithmetic of numbers: + - unary minus, and the two products            *)
(* (length * length, and anything * a Unit-scale factor).  The products    *)
(* are computed in halves of Scale so that no intermediate leaves 32 bits. *)
(***************************************************************************)
FAdd(a, b) == IF IsNaN(a) \/ IsNaN(b) THEN NaN ELSE a + b
FSub(a, b) == IF IsNaN(a) \/ IsNaN(b) THEN NaN ELSE a - b
FNeg(a) == IF IsNaN(a) THEN NaN ELSE -a

(* a * b for two length-scale numbers: (a * b) / Scale, rounded *)
FMul(a, b) ==
  IF IsNaN(a) \/ IsNaN(b) THEN NaN
  ELSE LET a1 == a \div Scale
           a0 == a % Scale
           b1 == b \div Scale
           b0 == b % Scale
       IN  a1 * b1 * Scale + a1 * b0 + a0 * b1 + ((a0 * b0 + Scale \div 2) \div Scale)

(* a * u for finite a and a Unit-scale factor u: (a * u) / Unit, rounded *)
MulU(a, u) ==
  LET a1 == a \div Scale
      a0 == a % Scale
      u1 == u \div Scale
      u0 == u % Scale
  IN  a1 * u1 + ((a1 * u0 + a0 * u1 + ((a0 * u0) \div Scale) + Scale \div 2) \div Scale)

FMulU(a, u) == IF IsNaN(a) \/ IsNaN(u) THEN NaN ELSE MulU(a, u)

(* floor(n * base^steps / d) for n >= 0, d > 0, by long division *)
RECURSIVE LongDivStep(_, _, _, _, _)
LongDivStep(q, r, d, base, steps) ==
  IF steps = 0 THEN q
  ELSE LongDivStep(q * base + ((r * base) \div d), (r * base) % d, d, base, steps - 1)

LongDiv(n, d, base, steps) == LongDivStep(n \div d, n % d, d, base, steps)

(***************************************************************************)
(* n / d as a Unit-scale ratio (the law-of-cosines arguments).  IEEE       *)
(* division: 0/0 is NaN, x/0 is +-Infinity.  A quotient beyond the         *)
(* fixed-point range saturates to +-Infinity (it is only ever clamped).    *)
(***************************************************************************)
MaxDivisor == 200000000
MaxQuotient == 20

DivPos(n, d) ==
  LET k == (d \div MaxDivisor) + 1
      nn == n \div k
      dd == d \div k
  IN  IF dd = 0 \/ nn \div dd >= MaxQuotient THEN PosInf
      ELSE LongDiv(nn, dd, 10, 8)

FDivU(n, d) ==
  IF IsNaN(n) \/ IsNaN(d) THEN NaN
  ELSE IF d = 0 THEN (IF n = 0 THEN NaN ELSE IF n > 0 THEN PosInf ELSE NegInf)
  ELSE LET q == DivPos(Abs(n), Abs(d))
       IN  IF (n < 0) = (d < 0) \/ n = 0 THEN q
           ELSE IF q = PosInf THEN NegInf ELSE -q

(***************************************************************************)
(* Math.sqrt on a length-scale number: floor(sqrt(v * Scale)), by Newton's *)
(* iteration from above.                                                   *)
(***************************************************************************)
MaxSqrt == 4634100

RECURSIVE SqrtIter(_, _)
SqrtIter(v, s) ==
  LET t == (s + LongDiv(v, s, 100, 2)) \div 2
  IN  IF t >= s THEN s ELSE SqrtIter(v, t)

Sqrt(v) ==
  IF IsNaN(v) \/ v < 0 THEN NaN
  ELSE IF v = 0 THEN 0
  ELSE LET s0 == IF (v + Scale) \div 2 + 1 < MaxSqrt THEN (v + Scale) \div 2 + 1 ELSE MaxSqrt
       IN  SqrtIter(v, s0)

(* the same at Unit scale, for w in 0..Unit: floor(sqrt(w * Unit)) *)
RECURSIVE SqrtUIter(_, _)
SqrtUIter(w, s) ==
  LET t == (s + LongDiv(w, s, 10, 8)) \div 2
  IN  IF t >= s THEN s ELSE SqrtUIter(w, t)

SqrtU(w) == IF w <= 0 THEN 0 ELSE SqrtUIter(w, (w + Unit) \div 2 + 1)

(***************************************************************************)
(* Math.PI, Math.cos, Math.sin: radians at Unit scale.  The argument is    *)
(* reduced to [0, pi/4] and the Taylor polynomial evaluated there.         *)
(***************************************************************************)
PI == 314159265
TWO_PI == 628318531
HALF_PI == 157079633
QUARTER_PI == 78539816

CosT(x) ==
  LET x2 == MulU(x, x)
      t6 == Unit - (x2 \div 132)
      t5 == Unit - (MulU(x2, t6) \div 90)
      t4 == Unit - (MulU(x2, t5) \div 56)
      t3 == Unit - (MulU(x2, t4) \div 30)
      t2 == Unit - (MulU(x2, t3) \div 12)
  IN  Unit - (MulU(x2, t2) \div 2)

SinT(x) ==
  LET x2 == MulU(x, x)
      t5 == Unit - (x2 \div 110)
      t4 == Unit - (MulU(x2, t5) \div 72)
      t3 == Unit - (MulU(x2, t4) \div 42)
      t2 == Unit - (MulU(x2, t3) \div 20)
      t1 == Unit - (MulU(x2, t2) \div 6)
  IN  MulU(x, t1)

(* the argument brought into (-pi, pi] *)
WrapAngle(x) ==
  IF x > PI THEN x - TWO_PI ELSE IF x <= -PI THEN x + TWO_PI ELSE x

(* on [0, pi/2] *)
CosQ(x) == IF x <= QUARTER_PI THEN CosT(x) ELSE SinT(HALF_PI - x)
SinQ(x) == IF x <= QUARTER_PI THEN SinT(x) ELSE CosT(HALF_PI - x)

(* on [0, pi] *)
CosH(x) == (IF x <= HALF_PI THEN 1 ELSE -1) * CosQ(IF x <= HALF_PI THEN x ELSE PI - x)
SinH(x) == SinQ(IF x <= HALF_PI THEN x ELSE PI - x)

Cos(theta) ==
  IF IsNaN(theta) THEN NaN
  ELSE CosH(Abs(WrapAngle(theta)))

Sin(theta) ==
  IF IsNaN(theta) THEN NaN
  ELSE (IF WrapAngle(theta) < 0 THEN -1 ELSE 1) * SinH(Abs(WrapAngle(theta)))

(***************************************************************************)
(* Math.atan2(y, x): the angle of (x, y) in (-pi, pi], atan2(0, 0) = 0.    *)
(* atan of the ratio t in [0, 1] of the smaller to the larger coordinate,  *)
(* by atan t = atan k + atan((t - k) / (1 + t k)) for the nearest k of     *)
(* 0, 1/4, 1/2, 3/4, 1 and the series of atan; then placed in its octant.  *)
(***************************************************************************)
ATAN_QUARTER == 24497866
ATAN_HALF == 46364761
ATAN_THREE_QUARTERS == 64350111

AtanSeries(u) ==
  LET u2 == MulU(u, u)
      s4 == (Unit \div 7) - (u2 \div 9)
      s3 == (Unit \div 5) - MulU(u2, s4)
      s2 == (Unit \div 3) - MulU(u2, s3)
  IN  MulU(u, Unit - MulU(u2, s2))

(* the knot k nearest to t, and atan k *)
AtanKnot(t) ==
  IF 8 * t <= Unit THEN 0
  ELSE IF 8 * t <= 3 * Unit THEN Unit \div 4
  ELSE IF 8 * t <= 5 * Unit THEN Unit \div 2
  ELSE IF 8 * t <= 7 * Unit THEN 3 * (Unit \div 4)
  ELSE Unit

AtanOfKnot(k) ==
  CASE k = 0 -> 0
    [] k = Unit \div 4 -> ATAN_QUARTER
    [] k = Unit \div 2 -> ATAN_HALF
    [] k = 3 * (Unit \div 4) -> ATAN_THREE_QUARTERS
    [] k = Unit -> QUARTER_PI

(* (t - k) / (1 + t k) *)
AtanShift(t, k) ==
  (IF t >= k THEN 1 ELSE -1) * LongDiv(Abs(t - k), Unit + MulU(t, k), 10, 8)

Atan01(t) == AtanOfKnot(AtanKnot(t)) + AtanSeries(AtanShift(t, AtanKnot(t)))

(* atan of ay / ax for ax, ay >= 0, not both 0: in [0, pi/2] *)
AtanOctant(ay, ax) ==
  (IF ay <= ax THEN 0 ELSE HALF_PI)
    + (IF ay <= ax THEN 1 ELSE -1)
        * Atan01(FDivU(IF ay <= ax THEN ay ELSE ax, IF ay <= ax THEN ax ELSE ay))

(* the angle a of (|x|, |y|) placed in the quadrant of (x, y) *)
AtanQuadrant(y, x, a) ==
  (IF y < 0 THEN -1 ELSE 1) * (IF x < 0 THEN PI - a ELSE a)

Atan2(y, x) ==
  IF IsNaN(y) \/ IsNaN(x) THEN NaN
  ELSE IF x = 0 /\ y = 0 THEN 0
  ELSE AtanQuadrant(y, x, AtanOctant(Abs(y), Abs(x)))

(***************************************************************************)
(* Math.acos(u) on [-1, 1] as atan2(sqrt(1 - u^2), u); NaN outside [-1, 1] *)
(* and for NaN.                                                            *)
(***************************************************************************)
Acos(u) ==
  IF IsNaN(u) \/ u > Unit \/ u < -Unit THEN NaN
  ELSE IF u = Unit THEN 0
  ELSE IF u = -Unit THEN PI
  ELSE Atan2(SqrtU(Unit - FMulU(u, u)), u)

(* Math.max, Math.min: NaN if either argument is NaN *)
MathMax(a, b) == IF IsNaN(a) \/ IsNaN(b) THEN NaN ELSE IF a >= b THEN a ELSE b
MathMin(a, b) == IF IsNaN(a) \/ IsNaN(b) THEN NaN ELSE IF a <= b THEN a ELSE b

(* Helper: Degrees to Radians, Radians to Degrees *)
(* toRad multiplies by pi/180 = 174.53292520 Unit-scale ulps per length-scale ulp *)
RAD_PER_DEG_WHOLE == 174
RAD_PER_DEG_FRAC == 53292520

toRad(deg) == IF IsNaN(deg) THEN NaN ELSE deg * RAD_PER_DEG_WHOLE + MulU(deg, RAD_PER_DEG_FRAC)
(* toDeg multiplies by 180/pi: 0.005729577951 length-scale ulps per        *)
(* Unit-scale ulp, the factor held in three digits of base Scale           *)
DEG_PER_RAD_2 == 57
DEG_PER_RAD_1 == 2957
DEG_PER_RAD_0 == 7951

toDeg(rad) ==
  IF IsNaN(rad) THEN NaN
  ELSE LET r1 == rad \div Scale
           r0 == rad % Scale
           low == (r1 * DEG_PER_RAD_0 + r0 * DEG_PER_RAD_1 + ((r0 * DEG_PER_RAD_0) \div Scale)) \div Scale
       IN  r1 * DEG_PER_RAD_2
             + ((r1 * DEG_PER_RAD_1 + r0 * DEG_PER_RAD_2 + low + Scale \div 2) \div Scale)

(***************************************************************************)
(* Points are records [x, y, z]; arrays are functions on 0..n-1.           *)
(***************************************************************************)
Point3D(px, py, pz) == [x |-> px, y |-> py, z |-> pz]

ArrayOf(seq) == [i \in 0..(Len(seq) - 1) |-> seq[i + 1]]

pointAdd(p, q) == Point3D(FAdd(p.x, q.x), FAdd(p.y, q.y), FAdd(p.z, q.z))
pointSub(p, q) == Point3D(FSub(p.x, q.x), FSub(p.y, q.y), FSub(p.z, q.z))

(* Helper: Rotate point.  The bodies of rotateX, rotateY and rotateZ, with *)
(* Math.cos(theta) and Math.sin(theta) evaluated once.                     *)
turnX(p, cos, sin) ==
  [x |-> p.x,
   y |-> FSub(FMulU(p.y, cos), FMulU(p.z, sin)),
   z |-> FAdd(FMulU(p.y, sin), FMulU(p.z, cos))]

turnY(p, cos, sin) ==
  [x |-> FAdd(FMulU(p.x, cos), FMulU(p.z, sin)),
   y |-> p.y,
   z |-> FAdd(FMulU(FNeg(p.x), sin), FMulU(p.z, cos))]

turnZ(p, cos, sin) ==
  [x |-> FSub(FMulU(p.x, cos), FMulU(p.y, sin)),
   y |-> FAdd(FMulU(p.x, sin), FMulU(p.y, cos)),
   z |-> p.z]

rotateX(p, theta) == turnX(p, Cos(theta), Sin(theta))
rotateY(p, theta) == turnY(p, Cos(theta), Sin(theta))
rotateZ(p, theta) == turnZ(p, Cos(theta), Sin(theta))

(* a layout whose back-left hip is on the right side *)
getLocalBodyPointsSignSlip(dims) ==
  ArrayOf(<<Point3D(dims.middle, 0, 0),
            Point3D(dims.side, -dims.front, 0),
            Point3D(-dims.side, -dims.front, 0),
            Point3D(-dims.middle, 0, 0),
            Point3D(dims.side, dims.front, 0),
            Point3D(dims.side, dims.front, 0)>>)

(* a layout that lists the back hips where the front hips belong *)
getLocalBodyPointsBackFirst(dims) ==
  ArrayOf(<<Point3D(dims.middle, 0, 0),
            Point3D(dims.side, dims.front, 0),
            Point3D(-dims.side, dims.front, 0),
            Point3D(-dims.middle, 0, 0),
            Point3D(-dims.side, -dims.front, 0),
            Point3D(dims.side, -dims.front, 0)>>)

(* Calculate Initial Body Points (Hexagon-ish) *)
getLocalBodyPoints(dims) ==
  ArrayOf(<<Point3D(dims.middle, 0, 0),
            Point3D(dims.side, -dims.front, 0),
            Point3D(-dims.side, -dims.front, 0),
            Point3D(-dims.middle, 0, 0),
            Point3D(-dims.side, dims.front, 0),
            Point3D(dims.side, dims.front, 0)>>)

(* a reach that counts the whole tibia *)
legReachFullTibia(dims) == FAdd(FAdd(dims.coxa, dims.femur), dims.tibia)

(* legReach of getFixedFootPoints: coxa + femur + tibia * 0.5 *)
legReachOf(dims) == FAdd(FAdd(dims.coxa, dims.femur), FMul(dims.tibia, Scale \div 2))

(* the ground point at the given angle and distance from the center *)
groundPoint(angle, reach) == Point3D(FMulU(reach, Cos(angle)), FMulU(reach, Sin(angle)), 0)

(* a foot placed at legReach from the center, the hip distance left out *)
footOfHipFromCenter(hip, legReach) == groundPoint(Atan2(hip.y, hip.x), legReach)

(* the callback of bodyPoints.map in getFixedFootPoints *)
footOfHip(hip, legReach) ==
  groundPoint(Atan2(hip.y, hip.x),
              FAdd(Sqrt(FAdd(FMul(hip.x, hip.x), FMul(hip.y, hip.y))), legReach))

(* Calculate World Foot Positions *)
getFixedFootPoints(dims) ==
  [i \in DOMAIN getLocalBodyPoints(dims) |->
     footOfHip(getLocalBodyPoints(dims)[i], legReachOf(dims))]

(* a transform that leaves the vertical translation out *)
toWorldNoLift(p, ps) ==
  pointAdd(rotateZ(rotateY(rotateX(p, toRad(ps.rx)), toRad(ps.ry)), toRad(ps.rz)),
           Point3D(ps.tx, ps.ty, 0))

(* a transform that rotates about Z, then Y, then X before translating *)
toWorldZYX(p, ps) ==
  pointAdd(rotateX(rotateY(rotateZ(p, toRad(ps.rz)), toRad(ps.ry)), toRad(ps.rx)),
           Point3D(ps.tx, ps.ty, ps.tz))

(* toWorld of solveHexapodIK, and the same steps of worldBodyPoints:       *)
(* rotate about X, then Y, then Z, then translate                          *)
toWorld(p, ps) ==
  pointAdd(rotateZ(rotateY(rotateX(p, toRad(ps.rx)), toRad(ps.ry)), toRad(ps.rz)),
           Point3D(ps.tx, ps.ty, ps.tz))

(* an inverse that undoes the rotations in the order X, Y, Z *)
toLocalXYZ(footWorld, ps) ==
  rotateZ(rotateY(rotateX(pointSub(footWorld, Point3D(ps.tx, ps.ty, ps.tz)),
                          FNeg(toRad(ps.rx))),
                  FNeg(toRad(ps.ry))),
          FNeg(toRad(ps.rz)))

(* fLocal of solveHexapodIK: inverse translate, then inverse rotate in the *)
(* order Z, Y, X                                                           *)
toLocal(footWorld, ps) ==
  rotateX(rotateY(rotateZ(pointSub(footWorld, Point3D(ps.tx, ps.ty, ps.tz)),
                          FNeg(toRad(ps.rz))),
                  FNeg(toRad(ps.ry))),
          FNeg(toRad(ps.rx)))

(* a cosine passed on without clamping *)
clampNone(cosine) == cosine

(* Math.max(-1, Math.min(1, cos)) *)
clamp(cosine) == MathMax(-Unit, MathMin(Unit, cosine))

(* a hip-to-foot vector rotated by +mountAngle instead of -mountAngle *)
legVectorMountForward(ps, footWorld, hipLocal, mountAngle) ==
  rotateZ(pointSub(toLocal(footWorld, ps), hipLocal), mountAngle)

(* vLeg of solveHexapodIK: the hip-to-foot vector in the leg's own frame   *)
(* (foot into the body frame, minus the hip, rotated by -mountAngle)       *)
legVector(ps, footWorld, hipLocal, mountAngle) ==
  rotateZ(pointSub(toLocal(footWorld, ps), hipLocal), FNeg(mountAngle))

(* c and alphaTri from reach and height *)
triangleOf(coxaAngle, reach, height) ==
  [coxaAngle |-> coxaAngle,
   reach |-> reach,
   height |-> height,
   c |-> Sqrt(FAdd(FMul(reach, reach), FMul(height, height))),
   alphaTri |-> Atan2(height, reach)]

(* a triangle whose reach is the whole planar distance, the coxa included *)
legTriangleNoCoxa(dims, vLeg) ==
  triangleOf(Atan2(vLeg.y, vLeg.x),
             Sqrt(FAdd(FMul(vLeg.x, vLeg.x), FMul(vLeg.y, vLeg.y))),
             vLeg.z)

(* coxaAngle, planarDist, reach, height, c and alphaTri of solveHexapodIK *)
legTriangle(dims, vLeg) ==
  triangleOf(Atan2(vLeg.y, vLeg.x),
             FSub(Sqrt(FAdd(FMul(vLeg.x, vLeg.x), FMul(vLeg.y, vLeg.y))), dims.coxa),
             vLeg.z)

(* cosBeta and cosGamma of solveHexapodIK: the law of cosines *)
cosBetaOf(dims, c) ==
  FDivU(FSub(FAdd(FMul(dims.femur, dims.femur), FMul(c, c)), FMul(dims.tibia, dims.tibia)),
        FMul(FMul(Num(2), dims.femur), c))

cosGammaOf(dims, c) ==
  FDivU(FSub(FAdd(FMul(dims.femur, dims.femur), FMul(dims.tibia, dims.tibia)), FMul(c, c)),
        FMul(FMul(Num(2), dims.femur), dims.tibia))

(* p1_leg of solveHexapodIK: the coxa end in the leg frame *)
p1_leg(dims, coxaAngle) ==
  Point3D(FMulU(dims.coxa, Cos(coxaAngle)), FMulU(dims.coxa, Sin(coxaAngle)), 0)

(* p2_plane (with fem_h, fem_v) and p3_plane of solveHexapodIK *)
p2_plane(dims, femurAngle) ==
  [h |-> FAdd(dims.coxa, FMulU(dims.femur, Cos(femurAngle))),
   v |-> FMulU(dims.femur, Sin(femurAngle))]

(* a foot placed at reach from the hip, the coxa left out *)
p3_planeNoCoxa(dims, reach, height) == [h |-> reach, v |-> height]

p3_plane(dims, reach, height) == [h |-> FAdd(dims.coxa, reach), v |-> height]

(* a mapping with the sine and the cosine exchanged *)
planeToLegSwapped(plane, coxaAngle) ==
  Point3D(FMulU(plane.h, Sin(coxaAngle)), FMulU(plane.h, Cos(coxaAngle)), plane.v)

(* p2_leg, p3_leg of solveHexapodIK: plane (h, v) back to leg local (x, y, z) *)
planeToLeg(plane, coxaAngle) ==
  Point3D(FMulU(plane.h, Cos(coxaAngle)), FMulU(plane.h, Sin(coxaAngle)), plane.v)

(* p*_body and j*_local of solveHexapodIK: rotate by mountAngle, translate *)
(* to the hip position in body local                                       *)
legToBodyLocal(pLeg, mountAngle, hipLocal) == pointAdd(rotateZ(pLeg, mountAngle), hipLocal)

(* the LegConfiguration returned for one leg: the angles in degrees and    *)
(* the joints rebuilt in the leg frame and taken to world space            *)
legConfiguration(dims, ps, index, hipWorld, hipLocal, mountAngle, tri, femurAngle, gammaTri) ==
  [legId |-> index,
   coxaAngle |-> toDeg(tri.coxaAngle),
   femurAngle |-> toDeg(femurAngle),
   tibiaAngle |-> toDeg(gammaTri),
   joints |->
     [bodyContact |-> hipWorld,
      coxa |-> toWorld(legToBodyLocal(p1_leg(dims, tri.coxaAngle), mountAngle, hipLocal), ps),
      femur |-> toWorld(legToBodyLocal(planeToLeg(p2_plane(dims, femurAngle), tri.coxaAngle),
                                       mountAngle, hipLocal), ps),
      foot |-> toWorld(legToBodyLocal(planeToLeg(p3_plane(dims, tri.reach, tri.height),
                                                 tri.coxaAngle),
                                      mountAngle, hipLocal), ps)]]

(* betaTri, femurAngle and gammaTri of solveHexapodIK, from the triangle *)
legOfTriangle(dims, ps, index, hipWorld, hipLocal, mountAngle, tri) ==
  legConfiguration(dims, ps, index, hipWorld, hipLocal, mountAngle, tri,
                   FAdd(tri.alphaTri, Acos(clamp(cosBetaOf(dims, tri.c)))),
                   Acos(clamp(cosGammaOf(dims, tri.c))))

(* the leg from its mountAngle on *)
legOfMount(dims, ps, index, hipWorld, footWorld, hipLocal, mountAngle) ==
  legOfTriangle(dims, ps, index, hipWorld, hipLocal, mountAngle,
                legTriangle(dims, legVector(ps, footWorld, hipLocal, mountAngle)))

(* the callback of worldBodyPoints.map in solveHexapodIK: one leg *)
solveLeg(dims, ps, index, hipWorld, footWorld, hipLocal) ==
  legOfMount(dims, ps, index, hipWorld, footWorld, hipLocal, Atan2(hipLocal.y, hipLocal.x))

(* a configuration whose corners are the body-local hip points *)
configurationOfLocalCorners(dims, ps, localBodyPoints, fixedFootPoints, worldBodyPoints) ==
  [legs |-> [index \in DOMAIN worldBodyPoints |->
               solveLeg(dims, ps, index, worldBodyPoints[index], fixedFootPoints[index],
                        localBodyPoints[index])],
   bodyCorners |-> localBodyPoints]

(* legs and the returned configuration of solveHexapodIK *)
configurationOf(dims, ps, localBodyPoints, fixedFootPoints, worldBodyPoints) ==
  [legs |-> [index \in DOMAIN worldBodyPoints |->
               solveLeg(dims, ps, index, worldBodyPoints[index], fixedFootPoints[index],
                        localBodyPoints[index])],
   bodyCorners |-> worldBodyPoints]

solveHexapodIK(dims, ps) ==
  configurationOf(dims, ps, getLocalBodyPoints(dims), getFixedFootPoints(dims),
                  [i \in DOMAIN getLocalBodyPoints(dims) |->
                     toWorld(getLocalBodyPoints(dims)[i], ps)])

(***************************************************************************)
(* App: DEFAULT_DIMENSIONS, DEFAULT_POSE and the component state.          *)
(***************************************************************************)
DEFAULT_DIMENSIONS ==
  [front |-> Num(100), side |-> Num(100), middle |-> Num(100),
   coxa |-> Num(50), femur |-> Num(100), tibia |-> Num(120)]

DEFAULT_POSE ==
  [tx |-> Num(0), ty |-> Num(0), tz |-> Num(80), rx |-> Num(0), ry |-> Num(0), rz |-> Num(0)]

VARIABLES dimensions, pose, isDataPanelOpen, hexapodConfig

vars == <<dimensions, pose, isDataPanelOpen, hexapodConfig>>

DimKeys == {"front", "side", "middle", "coxa", "femur", "tibia"}
PoseKeys == {"tx", "ty", "tz", "rx", "ry", "rz"}

(* the slider positions explored, per key; each includes the default *)
DimValues(key) ==
  CASE key = "front" -> {Num(100)}
    [] key = "side" -> {Num(100), Num(60)}
    [] key = "middle" -> {Num(100)}
    [] key = "coxa" -> {Num(50)}
    [] key = "femur" -> {Num(100), Num(40)}
    [] key = "tibia" -> {Num(120), Num(40)}

PoseValues(key) ==
  CASE key = "tx" -> {Num(0), Num(60)}
    [] key = "ty" -> {Num(0)}
    [] key = "tz" -> {Num(80), Num(0)}
    [] key = "rx" -> {Num(0), Num(20)}
    [] key = "ry" -> {Num(0), Num(-15)}
    [] key = "rz" -> {Num(0), Num(30)}

Init ==
  /\ dimensions = DEFAULT_DIMENSIONS
  /\ pose = DEFAULT_POSE
  /\ isDataPanelOpen = TRUE
  /\ hexapodConfig = solveHexapodIK(DEFAULT_DIMENSIONS, DEFAULT_POSE)

(* a memo that lists dimensions as its only dependency *)
useMemoDimensionsOnly(cached, prevDimensions, prevPose, nextDimensions, nextPose) ==
  IF nextDimensions = prevDimensions
  THEN cached
  ELSE solveHexapodIK(nextDimensions, nextPose)

(* useMemo(() => solveHexapodIK(dimensions, pose), [dimensions, pose]) in  *)
(* the render that follows a state change: the cached value is kept when   *)
(* both dependencies are unchanged and recomputed otherwise.               *)
useMemo(cached, prevDimensions, prevPose, nextDimensions, nextPose) ==
  IF nextDimensions = prevDimensions /\ nextPose = prevPose
  THEN cached
  ELSE solveHexapodIK(nextDimensions, nextPose)

(* a handler that spreads the defaults instead of the previous dimensions *)
handleDimensionChangeFromDefaults(key, value) ==
  /\ value # dimensions[key]
  /\ dimensions' = [DEFAULT_DIMENSIONS EXCEPT ![key] = value]
  /\ UNCHANGED <<pose, isDataPanelOpen>>
  /\ hexapodConfig' = useMemo(hexapodConfig, dimensions, pose, dimensions', pose')

(* A slider's onChange fires when its value changes (Controls, Slider):    *)
(* the handlers are called with a value other than the current one.        *)
(* setDimensions((prev) => ({ ...prev, [key]: value })), then the render.  *)
handleDimensionChange(key, value) ==
  /\ value # dimensions[key]
  /\ dimensions' = [dimensions EXCEPT ![key] = value]
  /\ UNCHANGED <<pose, isDataPanelOpen>>
  /\ hexapodConfig' = useMemo(hexapodConfig, dimensions, pose, dimensions', pose')

handlePoseChange(key, value) ==
  /\ value # pose[key]
  /\ pose' = [pose EXCEPT ![key] = value]
  /\ UNCHANGED <<dimensions, isDataPanelOpen>>
  /\ hexapodConfig' = useMemo(hexapodConfig, dimensions, pose, dimensions', pose')

(* a reset that restores the dimensions only *)
resetDimensionsOnly ==
  /\ dimensions' = DEFAULT_DIMENSIONS
  /\ UNCHANGED <<pose, isDataPanelOpen>>
  /\ hexapodConfig' = useMemo(hexapodConfig, dimensions, pose, dimensions', pose')

reset ==
  /\ dimensions' = DEFAULT_DIMENSIONS
  /\ pose' = DEFAULT_POSE
  /\ UNCHANGED isDataPanelOpen
  /\ hexapodConfig' = useMemo(hexapodConfig, dimensions, pose, dimensions', pose')

toggleDataPanel ==
  /\ isDataPanelOpen' = ~isDataPanelOpen
  /\ UNCHANGED <<dimensions, pose>>
  /\ hexapodConfig' = useMemo(hexapodConfig, dimensions, pose, dimensions', pose')

Next ==
  \/ \E key \in DimKeys : \E value \in DimValues(key) : handleDimensionChange(key, value)
  \/ \E key \in PoseKeys : \E value \in PoseValues(key) : handlePoseChange(key, value)
  \/ reset
  \/ toggleDataPanel

Spec == Init /\ [][Next]_vars

(***************************************************************************)
(* Vocabulary of the properties.                                           *)
(***************************************************************************)
LegIds == 0..5

(* tolerance of a comparison "within tolerance": a thousandth of a unit *)
Tol == Scale \div 1000

Near(a, b) == ~IsNaN(a) /\ ~IsNaN(b) /\ Abs(a - b) <= Tol
PointNear(p, q) == Near(p.x, q.x) /\ Near(p.y, q.y) /\ Near(p.z, q.z)

ZeroPose == [tx |-> 0, ty |-> 0, tz |-> 0, rx |-> 0, ry |-> 0, rz |-> 0]
FullRotation == pose.rx # 0 /\ pose.ry # 0 /\ pose.rz # 0

FixedFoot(i) == getFixedFootPoints(dimensions)[i]
LocalHip(i) == getLocalBodyPoints(dimensions)[i]
Foot(i) == hexapodConfig.legs[i].joints.foot

(* the triangle of leg i in the current state, as solveHexapodIK derives it *)
Triangle(i) ==
  legTriangle(dimensions,
              legVector(pose, FixedFoot(i), LocalHip(i), Atan2(LocalHip(i).y, LocalHip(i).x)))

(* |femur - tibia| <= c <= femur + tibia *)
Reachable(i) ==
  /\ Abs(dimensions.femur - dimensions.tibia) <= Triangle(i).c
  /\ Triangle(i).c <= dimensions.femur + dimensions.tibia

C2_RoundTripReachable ==
  \A i \in LegIds : Reachable(i) => PointNear(Foot(i), FixedFoot(i))

C2_Witness ==
  /\ FullRotation
  /\ pose.tx # 0 /\ pose.tz # 0
  /\ \E i \in LegIds : Reachable(i) /\ PointNear(Foot(i), FixedFoot(i))
  /\ \E i \in LegIds : ~Reachable(i)

(***************************************************************************)
(* C3.  The forward transform (toWorld) and the inverse transform          *)
(* (toLocal) undo each other.  As stated, exactly: forward(inverse(p)) = p *)
(* and inverse(forward(p)) = p for every point and pose.  As amended: the  *)
(* two compositions return p within tolerance, for every point and pose.   *)
(***************************************************************************)
ProbePoints ==
  {Point3D(Num(100), 0, 0), Point3D(Num(30), Num(-40), Num(50)),
   Point3D(Num(-210), Num(95), 0), Point3D(0, 0, Num(-80))} \cup {FixedFoot(i) : i \in LegIds}

C3_ExactInverses ==
  \A p \in ProbePoints :
    /\ toWorld(toLocal(p, pose), pose) = p
    /\ toLocal(toWorld(p, pose), pose) = p

C3_InversesWithinTolerance ==
  \A p \in ProbePoints :
    /\ PointNear(toWorld(toLocal(p, pose), pose), p)
    /\ PointNear(toLocal(toWorld(p, pose), pose), p)

C3_Witness ==
  /\ FullRotation
  /\ pose.tx # 0 /\ pose.tz # 0
  /\ \E p \in ProbePoints :
       /\ toWorld(toLocal(p, pose), pose) # p
       /\ PointNear(toWorld(toLocal(p, pose), pose), p)

(***************************************************************************)
(* C4.  Angles are never NaN: every leg's femurAngle and tibiaAngle is a   *)
(* real number for all positive dimensions and all finite poses, also when *)
(* the hypotenuse c leaves [|femur - tibia|, femur + tibia] or is zero.    *)
(***************************************************************************)
C4_AnglesNeverNaN ==
  \A i \in LegIds :
    /\ ~IsNaN(hexapodConfig.legs[i].femurAngle)
    /\ ~IsNaN(hexapodConfig.legs[i].tibiaAngle)

(***************************************************************************)
(* C5.  Symmetry of the fixed foot points when front = side = middle.  As  *)
(* stated: the six points all lie at the same distance from the body       *)
(* center (0,0,0), within tolerance.  As amended: they lie on two circles, *)
(* the two middle feet at distance w + L and the four corner feet at       *)
(* distance sqrt(2)*w + L, with w the common width and                     *)
(* L = coxa + femur + 0.5*tibia.                                           *)
(***************************************************************************)
EqualWidths == dimensions.front = dimensions.side /\ dimensions.side = dimensions.middle

PlanarNorm(p) == Sqrt(FAdd(FMul(p.x, p.x), FMul(p.y, p.y)))

StandingReach == dimensions.coxa + dimensions.femur + dimensions.tibia \div 2

MiddleLegs == {0, 3}
CornerLegs == {1, 2, 4, 5}

C5_Equidistant ==
  EqualWidths =>
    \A i, j \in LegIds : Near(PlanarNorm(FixedFoot(i)), PlanarNorm(FixedFoot(j)))

C5_TwoCircles ==
  EqualWidths =>
    /\ \A i \in MiddleLegs :
         Near(PlanarNorm(FixedFoot(i)), dimensions.middle + StandingReach)
    /\ \A i \in CornerLegs :
         Near(PlanarNorm(FixedFoot(i)),
              Sqrt(2 * FMul(dimensions.middle, dimensions.middle)) + StandingReach)

C5_Witness ==
  /\ EqualWidths
  /\ dimensions.femur # DEFAULT_DIMENSIONS.femur
  /\ dimensions.tibia # DEFAULT_DIMENSIONS.tibia
  /\ Near(PlanarNorm(FixedFoot(0)), dimensions.middle + StandingReach)
  /\ ~Near(PlanarNorm(FixedFoot(0)), PlanarNorm(FixedFoot(1)))

(***************************************************************************)
(* C6.  Each fixed foot point has z = 0 and lies on the ray from the body  *)
(* center through the leg's local hip point, at distance                   *)
(* |hip| + coxa + femur + 0.5*tibia from the center.  (That the point      *)
(* depends on the dimensions only is the signature of getFixedFootPoints.) *)
(***************************************************************************)
(* the point of the ray through hip at the given distance from the center *)
OnRay(hip, distance) ==
  LET ratio == FDivU(distance, PlanarNorm(hip))
  IN  Point3D(FMulU(hip.x, ratio), FMulU(hip.y, ratio), 0)

HipOfOrdering(i) ==
  CASE i = 0 -> Point3D(dimensions.middle, 0, 0)
    [] i = 1 -> Point3D(dimensions.side, -dimensions.front, 0)
    [] i = 2 -> Point3D(-dimensions.side, -dimensions.front, 0)
    [] i = 3 -> Point3D(-dimensions.middle, 0, 0)
    [] i = 4 -> Point3D(-dimensions.side, dimensions.front, 0)
    [] i = 5 -> Point3D(dimensions.side, dimensions.front, 0)

C7_SixLegsInOrder ==
  /\ DOMAIN hexapodConfig.legs = LegIds
  /\ DOMAIN hexapodConfig.bodyCorners = LegIds
  /\ \A i \in LegIds :
       /\ hexapodConfig.legs[i].legId = i
       /\ hexapodConfig.legs[i].joints.bodyContact = toWorld(HipOfOrdering(i), pose)

C7_Witness ==
  /\ FullRotation
  /\ dimensions.side # dimensions.front
  /\ Cardinality(DOMAIN hexapodConfig.legs) = 6
  /\ hexapodConfig.legs[4].legId = 4
  /\ hexapodConfig.legs[4].joints.bodyContact = toWorld(HipOfOrdering(4), pose)
  /\ hexapodConfig.legs[4].joints.bodyContact # hexapodConfig.legs[2].joints.bodyContact

(***************************************************************************)
(* C8.  Scenario of the defaults: for the default dimensions and the       *)
(* default pose (tz = 80) the configuration has 6 legs and 6 body corners, *)
(* every leg's joints.foot.z is 0 within tolerance, and every femurAngle   *)
(* and tibiaAngle lies within [-180, 180] degrees.                         *)
(***************************************************************************)
InDegreeRange(a) == ~IsNaN(a) /\ Num(-180) <= a /\ a <= Num(180)

C8_DefaultScenario ==
  (dimensions = DEFAULT_DIMENSIONS /\ pose = DEFAULT_POSE) =>
    /\ Cardinality(DOMAIN hexapodConfig.legs) = 6
    /\ Cardinality(DOMAIN hexapodConfig.bodyCorners) = 6
    /\ \A i \in LegIds :
         /\ Near(Foot(i).z, 0)
         /\ InDegreeRange(hexapodConfig.legs[i].femurAngle)
         /\ InDegreeRange(hexapodConfig.legs[i].tibiaAngle)

C8_Witness ==
  /\ dimensions = DEFAULT_DIMENSIONS /\ pose = DEFAULT_POSE
  /\ ~isDataPanelOpen
  /\ \A i \in LegIds :
       /\ Near(Foot(i).z, 0)
       /\ hexapodConfig.legs[i].femurAngle > 0
       /\ hexapodConfig.legs[i].tibiaAngle > Num(90)
       /\ hexapodConfig.legs[i].tibiaAngle < Num(180)

(***************************************************************************)
(* C10.  Clamp policy for unreachable targets.  When c > femur + tibia,    *)
(* betaTri = 0, so femurAngle = alphaTri, and tibiaAngle is 180 degrees;   *)
(* when 0 < c < |femur - tibia|, tibiaAngle is 0 degrees.  In both cases   *)
(* the angles are numbers: nothing fails.                                  *)
(***************************************************************************)
TooFar(i) == Triangle(i).c > dimensions.femur + dimensions.tibia
TooNear(i) ==
  /\ 0 < Triangle(i).c
  /\ Triangle(i).c < Abs(dimensions.femur - dimensions.tibia)

C10_ClampPolicy ==
  \A i \in LegIds :
    /\ TooFar(i) =>
         /\ hexapodConfig.legs[i].tibiaAngle = Num(180)
         /\ hexapodConfig.legs[i].femurAngle = toDeg(Triangle(i).alphaTri)
         /\ IsFinite(hexapodConfig.legs[i].femurAngle)
    /\ TooNear(i) =>
         /\ hexapodConfig.legs[i].tibiaAngle = 0
         /\ IsFinite(hexapodConfig.legs[i].femurAngle)

C10_Witness ==
  /\ \E i \in LegIds : TooFar(i) /\ hexapodConfig.legs[i].tibiaAngle = Num(180)
  /\ \E i \in LegIds : TooNear(i) /\ hexapodConfig.legs[i].tibiaAngle = 0

(***************************************************************************)
(* C11.  The memoized configuration is never stale: after any sequence of  *)
(* slider changes and resets, hexapodConfig (the value handed to           *)
(* Hexapod3D and DataPanel) equals solveHexapodIK(dimensions, pose) of the *)
(* current state.                                                          *)
(***************************************************************************)
C11_MemoNeverStale == hexapodConfig = solveHexapodIK(dimensions, pose)

C11_Witness ==
  /\ dimensions # DEFAULT_DIMENSIONS
  /\ pose.rz # 0 /\ pose.tx # 0
  /\ ~isDataPanelOpen
  /\ hexapodConfig = solveHexapodIK(dimensions, pose)
  /\ hexapodConfig # solveHexapodIK(DEFAULT_DIMENSIONS, pose)
  /\ hexapodConfig # solveHexapodIK(dimensions, DEFAULT_POSE)

(***************************************************************************)
(* C12.  Segment lengths of the returned joints: for every leg, the        *)
(* distance bodyContact-to-coxa equals the coxa length and the distance    *)
(* coxa-to-femur equals the femur length (also for clamped, unreachable    *)
(* targets); and whenever the target is reachable the distance             *)
(* femur-to-foot equals the tibia length.  All within tolerance.           *)
(***************************************************************************)
Norm3(v) == Sqrt(FAdd(FAdd(FMul(v.x, v.x), FMul(v.y, v.y)), FMul(v.z, v.z)))
Dist3(p, q) == Norm3(pointSub(p, q))

Joints(i) == hexapodConfig.legs[i].joints

C12_SegmentLengths ==
  \A i \in LegIds :
    /\ Near(Dist3(Joints(i).bodyContact, Joints(i).coxa), dimensions.coxa)
    /\ Near(Dist3(Joints(i).coxa, Joints(i).femur), dimensions.femur)
    /\ Reachable(i) => Near(Dist3(Joints(i).femur, Joints(i).foot), dimensions.tibia)

(***************************************************************************)
(* C13.  The returned joints.foot of every leg equals that leg's fixed     *)
(* foot point within tolerance, for every pose and dimension set, also     *)
(* when the target is unreachable and the cosines were clamped: the foot   *)
(* is rebuilt from reach and height, not from the clamped angles.          *)
(***************************************************************************)
C13_FootIsFixedFoot ==
  \A i \in LegIds : PointNear(Foot(i), FixedFoot(i))

C13_Witness ==
  /\ FullRotation
  /\ pose.tx # 0
  /\ \E i \in LegIds : TooFar(i)
  /\ \E i \in LegIds : ~Reachable(i) /\ PointNear(Foot(i), FixedFoot(i))

(***************************************************************************)
(* C14.  For every leg i, bodyCorners[i] and legs[i].joints.bodyContact    *)
(* are the same point, and it is the local hip point i rotated about X by  *)
(* rx, then about Y by ry, then about Z by rz, then translated by          *)
(* (tx, ty, tz); at the all-zero pose bodyCorners equals the local hips.   *)
(***************************************************************************)
HipInWorld(i) ==
  pointAdd(rotateZ(rotateY(rotateX(LocalHip(i), toRad(pose.rx)), toRad(pose.ry)),
                   toRad(pose.rz)),
           Point3D(pose.tx, pose.ty, pose.tz))

C14_BodyCorners ==
  /\ DOMAIN hexapodConfig.bodyCorners = LegIds
  /\ \A i \in LegIds :
       /\ hexapodConfig.bodyCorners[i] = Joints(i).bodyContact
       /\ hexapodConfig.bodyCorners[i] = HipInWorld(i)
       /\ pose = ZeroPose => hexapodConfig.bodyCorners[i] = LocalHip(i)

C14_Witness ==
  /\ FullRotation
  /\ pose.tx # 0
  /\ pose.tz # 0
  /\ dimensions.side # dimensions.front
  /\ \A i \in LegIds :
       /\ hexapodConfig.bodyCorners[i] = Joints(i).bodyContact
       /\ hexapodConfig.bodyCorners[i] # LocalHip(i)

C14_WitnessZeroPose ==
  /\ pose = ZeroPose
  /\ dimensions # DEFAULT_DIMENSIONS
  /\ \A i \in LegIds : hexapodConfig.bodyCorners[i] = LocalHip(i)

(***************************************************************************)
(* C15.  The six local hip points of getLocalBodyPoints all have z = 0 and *)
(* are symmetric about the origin: hip (i+3) mod 6 is the point reflection *)
(* (-x, -y, 0) of hip i, the middle pair is at (+-middle, 0) and the four  *)
(* corner hips are the four points (+-side, +-front).                      *)
(***************************************************************************)
CornerPoints ==
  {Point3D(sx * dimensions.side, sy * dimensions.front, 0) : sx \in {-1, 1}, sy \in {-1, 1}}

C15_HipsSymmetric ==
  /\ DOMAIN getLocalBodyPoints(dimensions) = LegIds
  /\ \A i \in LegIds :
       /\ LocalHip(i).z = 0
       /\ LocalHip((i + 3) % 6) = Point3D(-LocalHip(i).x, -LocalHip(i).y, 0)
  /\ {LocalHip(i) : i \in MiddleLegs} =
       {Point3D(dimensions.middle, 0, 0), Point3D(-dimensions.middle, 0, 0)}
  /\ {LocalHip(i) : i \in CornerLegs} = CornerPoints

C15_Witness ==
  /\ pose = ZeroPose
  /\ dimensions.side # dimensions.front
  /\ dimensions.side # dimensions.middle
  /\ hexapodConfig.bodyCorners[1] = Point3D(dimensions.side, -dimensions.front, 0)
  /\ hexapodConfig.bodyCorners[4] = Point3D(-dimensions.side, dimensions.front, 0)
  /\ hexapodConfig.bodyCorners[3] = Point3D(-dimensions.middle, 0, 0)

(***************************************************************************)
(* C16.  Leg alignment: when rx = ry = rz = 0 and tx = ty = 0 (any tz),    *)
(* the hip-to-foot vector in each leg's own frame has y-component 0 within *)
(* tolerance, and every leg's reported coxaAngle is 0 degrees.             *)
(***************************************************************************)
LevelCentered ==
  pose.rx = 0 /\ pose.ry = 0 /\ pose.rz = 0 /\ pose.tx = 0 /\ pose.ty = 0

LegVectorOf(i) ==
  legVector(pose, FixedFoot(i), LocalHip(i), Atan2(LocalHip(i).y, LocalHip(i).x))

C16_LegsAligned ==
  LevelCentered =>
    \A i \in LegIds :
      /\ Near(LegVectorOf(i).y, 0)
      /\ Near(hexapodConfig.legs[i].coxaAngle, 0)

C16_Witness ==
  /\ LevelCentered
  /\ pose.tz # 0
  /\ dimensions.side # dimensions.front
  /\ dimensions.tibia # DEFAULT_DIMENSIONS.tibia
  /\ \A i \in LegIds : Near(hexapodConfig.legs[i].coxaAngle, 0)
  /\ \E i \in CornerLegs : ~Near(LegVectorOf(i).x, FixedFoot(i).x - LocalHip(i).x)

ResetEffect ==
  /\ dimensions' = [front |-> Num(100), side |-> Num(100), middle |-> Num(100),
                    coxa |-> Num(50), femur |-> Num(100), tibia |-> Num(120)]
  /\ pose' = [tx |-> 0, ty |-> 0, tz |-> Num(80), rx |-> 0, ry |-> 0, rz |-> 0]
  /\ isDataPanelOpen' = isDataPanelOpen

C18_ResetRestoresDefaults == [][ResetEffect \/ ~reset]_vars

C18_Witness ==
  /\ dimensions.femur # Num(100)
  /\ dimensions.side # Num(100)
  /\ pose.rz # 0
  /\ pose.tz # Num(80)
  /\ ~isDataPanelOpen
  /\ hexapodConfig # solveHexapodIK(DEFAULT_DIMENSIONS, DEFAULT_POSE)

(***************************************************************************)
(* C19.  handleDimensionChange(key, value) sets only dimensions[key] to    *)
(* value and leaves the other five dimensions, the whole pose and          *)
(* isDataPanelOpen unchanged; handlePoseChange(key, value) sets only       *)
(* pose[key] and leaves the other five pose fields, all dimensions and     *)
(* isDataPanelOpen unchanged; toggling the data panel changes neither      *)
(* dimensions nor pose.                                                    *)
(***************************************************************************)
DimensionChangeEffect(key, value) ==
  /\ dimensions'[key] = value
  /\ \A other \in DimKeys \ {key} : dimensions'[other] = dimensions[other]
  /\ pose' = pose
  /\ isDataPanelOpen' = isDataPanelOpen

PoseChangeEffect(key, value) ==
  /\ pose'[key] = value
  /\ \A other \in PoseKeys \ {key} : pose'[other] = pose[other]
  /\ dimensions' = dimensions
  /\ isDataPanelOpen' = isDataPanelOpen

ToggleEffect == dimensions' = dimensions /\ pose' = pose

C19_HandlersFrame ==
  [][/\ \A key \in DimKeys : \A value \in DimValues(key) :
         DimensionChangeEffect(key, value) \/ ~handleDimensionChange(key, value)
     /\ \A key \in PoseKeys : \A value \in PoseValues(key) :
         PoseChangeEffect(key, value) \/ ~handlePoseChange(key, value)
     /\ ToggleEffect \/ ~toggleDataPanel]_vars

C19_Witness ==
  /\ dimensions = [DEFAULT_DIMENSIONS EXCEPT !.femur = Num(40)]
  /\ pose = [DEFAULT_POSE EXCEPT !.rz = Num(30)]
  /\ ~isDataPanelOpen
  /\ hexapodConfig = solveHexapodIK(dimensions, pose)

====
